---- MODULE Spec2Model ----
(***************************************************************************)
(* A model of the audio analysis and visualization pipeline of the player: *)
(*   - the useAudioContext hook (src/src/hooks/useAudioContext.js): the    *)
(*     React state, the refs, the closures of the last render, the effect  *)
(*     that calls cleanup, and the Web Audio graph the hook builds;        *)
(*   - the Visualizer component (src/src/components/AudioPlayer.jsx,       *)
(*     lines 403-718): its initialization effect and its animation loop.   *)
(*                                                                         *)
(* React is modelled by what it does to a function component: a setter     *)
(* changes the state at once, the callbacks handed out by the last render  *)
(* keep the values they closed over until the next render, and a render    *)
(* whose effect dependencies changed runs the previous effect's destructor *)
(* (with the previous closures) before the new effect.                     *)
(***************************************************************************)
EXTENDS Integers, Sequences, FiniteSets, TLC

\* ------------------------------------------------------------------ bounds
MaxCtx == 2       \* analysis contexts the platform hands out in one run
MaxElems == 2     \* media elements a caller can pass to connectAudioElement
MaxFilters == 1   \* biquad filters created in one run
MaxFrames == 4    \* runs of the Visualizer's animate function in one run
MaxRaf == 3       \* animation frame requests that can be outstanding or remembered
MaxLen == 10      \* bins of a frequency snapshot handed to getAudioAnalysis
VolumeSteps == 4  \* volume levels are multiples of 1/VolumeSteps

\* --------------------------------------------------------- program constants
Null == 0                 \* null / no object
FftSize == 2048           \* analyserNode.fftSize
MaxTracks == 4            \* tracks in the playlist, the two samples included
MaxBins == 6              \* samples of a snapshot that drawParticles is given
MaxFiles == 2             \* files chosen in one upload
MaxSample == 255          \* the largest value of a Uint8Array entry

\* the gain 1, in units of 1/VolumeSteps
FullGain == VolumeSteps

Ctx == 1..MaxCtx
Elem == 1..MaxElems

InitError == "Failed to initialize audio system"
ConnectError == "Failed to connect audio source"
NoError == "null"

VARIABLES
  \* the platform (Web Audio)
  ctxState,        \* context -> "none" | "suspended" | "running" | "closed"
  ctxWired,        \* contexts whose analyser -> gain -> destination chain exists
  ctxCloses,       \* context -> number of times close() has closed it
  awaiting,        \* contexts whose initializeContext call awaits context.resume()
  listening,       \* the context whose statechange event handleStateChange listens to
  resuming,        \* contexts with a resume() of handleStateChange not settled yet
  resumeErrorLogged, \* console.error has logged a rejected resume (line 248)
  srcs,            \* media element source nodes, in creation order
  filters,         \* biquad filter nodes, in creation order
  \* the hook's React state (useState)
  audioContext, analyser, source, isInitialized, error,
  \* the hook's refs (useRef)
  audioElementRef, gainNodeRef, dataArrayRef, bufferLengthRef,
  \* React bookkeeping
  view,            \* the values the callbacks of the last render closed over
  effCleanup,      \* the cleanup closure held by the mounted effect's destructor
  mounted,
  \* the Visualizer: props and state
  audioElement, isPlaying, visualizerType, vizIsInitialized, vizMounted,
  \* the Visualizer's refs
  audioContextRef, sourceRef, analyserRef, vizDataArrayRef, animationRef,
  \* the Visualizer's audio context, as the platform runs it
  vizCtxState,     \* "none" | "suspended" | "running"
  vizResumes,      \* promises of resume() calls made by animate, not settled yet
  \* React bookkeeping of the Visualizer's two effects
  initCleanup,     \* the initialization effect holds a destructor
  animCleanup,     \* the animation effect holds a destructor
  animDepsRun,     \* the dependency values the animation effect last ran with
  \* the browser's animation frame queue: requests not yet fired or cancelled,
  \* each with the closure (isPlaying, visualizerType) of its animate function
  rafPending,
  \* observation of the animation loop
  frames,          \* runs of animate
  ticks,           \* runs of animate as an animation frame callback
  lastFrameBy,     \* what ran animate last: "effect", "tick", or "none"
  pulls,           \* calls of getByteFrequencyData
  renders,         \* calls of a draw function
  lastDrawn,       \* the draw functions called by the last run of animate
  captured,        \* the number of the capture whose samples the buffer holds
  drawnCaptures,   \* for each draw call so far, the capture it read from the buffer
  \* getAudioAnalysis as a function of the snapshot it gets
  frequencyData,   \* what getFrequencyData returned: a sequence of samples
  analysis,        \* what getAudioAnalysis returned for it
  polledArray,     \* the shared array that holds frequencyData, Null when none does
  circles,         \* the circles that drawParticles painted for frequencyData
  \* the gain nodes, in units of 1/VolumeSteps
  gain,            \* gain.value of the hook's gain node
  utilGain,        \* gain.value of a gain node made by createGainNode
  utilRamp,        \* the ramp scheduled on that node
  \* App: its state (useState), the tracks named by their ids
  playlist, currentTrack, appVolume, isMuted, isShuffled, repeatMode,
  appMounted,      \* the mount effect of App has run
  elementVolume,   \* volume of the audio element, in units of 1/VolumeSteps
  lastIndex        \* the index that handleNext or handlePrevious computed last

tapVars == <<ctxState, ctxWired, ctxCloses, awaiting, listening, resuming,
             resumeErrorLogged, srcs, filters,
             audioContext, analyser, source, isInitialized, error,
             audioElementRef, gainNodeRef, dataArrayRef, bufferLengthRef,
             view, effCleanup, mounted>>

vizVars == <<audioElement, isPlaying, visualizerType, vizIsInitialized, vizMounted,
             audioContextRef, sourceRef, analyserRef, vizDataArrayRef, animationRef,
             vizCtxState, vizResumes,
             initCleanup, animCleanup, animDepsRun, rafPending,
             frames, ticks, lastFrameBy, pulls, renders, lastDrawn,
             captured, drawnCaptures>>

fnVars == <<frequencyData, analysis, polledArray, circles>>

volVars == <<gain, utilGain, utilRamp>>

appVars == <<playlist, currentTrack, appVolume, isMuted, isShuffled, repeatMode,
             appMounted, elementVolume, lastIndex>>

vars == <<tapVars, vizVars, fnVars, volVars, appVars>>

\* ------------------------------------------------------------ the platform

\* analyserNode.frequencyBinCount: half the transform size
FrequencyBinCount == FftSize \div 2

\* node names in the audio graph
AnalyserOf(c) == <<"analyser", c>>
FilterNode(k) == <<"filter", k>>

\* the elements already bound to a MediaElementAudioSourceNode: the platform
\* refuses (InvalidStateError) to create a second source for one of them
Tapped == {srcs[i].elem : i \in 1..Len(srcs)}

\* the handles a caller can pass: media elements are opaque and interchangeable, so
\* a call is made with null, with an element already bound, or with the first of
\* the elements not bound yet
Untapped == Elem \ Tapped
Handles ==
  {Null} \cup Tapped \cup {e \in Untapped : \A d \in Untapped : e <= d}

FreeCtx == {c \in Ctx : ctxState[c] = "none"}
NewCtx == CHOOSE c \in FreeCtx : \A d \in FreeCtx : c <= d

\* source.disconnect(): drops every outgoing connection of the source
Disconnected(ss, s) == [ss EXCEPT ![s].out = {}]

\* does the signal of source s reach the output device
ReachesAnalyser(s, c) ==
  \/ AnalyserOf(c) \in srcs[s].out
  \/ \E k \in 1..Len(filters) :
       FilterNode(k) \in srcs[s].out /\ AnalyserOf(c) \in filters[k].out
ReachesOutput(s) ==
  \E c \in Ctx : /\ ReachesAnalyser(s, c)
                 /\ c \in ctxWired
                 /\ ctxState[c] # "closed"


\* --------------------------------------------------------------- the hook

\* what a render hands to the callbacks: the useCallback dependency values
CurrentView == [audioContext |-> audioContext, analyser |-> analyser, source |-> source]

\* Every platform call can fail (throw, or reject for resume); `fault` names the
\* call of the operation that does, "none" when none does.  A fault is drawn
\* only for a call the operation gets to make.
InitFaults == {"none", "construct", "node"}
ConnectFaults == {"none", "disconnect", "create", "connect"}
FilterFaults == {"none", "create", "disconnect", "connect", "connectAnalyser"}
RemoveFaults == {"none", "disconnect", "connect"}
CleanupFaults == {"none", "disconnect", "close"}

\* initializeContext, line 18: an open context is already there
AlreadyInitialized(v) ==
  v.audioContext # Null /\ ctxState[v.audioContext] # "closed"

\* initializeContext, lines 29-49: the nodes, the buffer and the state updates
\* (React drops the state updates of an unmounted component; the refs are plain
\* objects and are assigned anyway)
InitBody(c, fault) ==
  IF fault = "node"
  THEN /\ error' = IF mounted THEN InitError ELSE error
       /\ UNCHANGED <<ctxWired, audioContext, analyser, isInitialized,
                      gainNodeRef, dataArrayRef, bufferLengthRef, gain>>
  ELSE /\ ctxWired' = ctxWired \cup {c}
       /\ gain' = FullGain
       /\ audioContext' = IF mounted THEN c ELSE audioContext
       /\ analyser' = IF mounted THEN c ELSE analyser
       /\ gainNodeRef' = c
       /\ dataArrayRef' = c
       /\ bufferLengthRef' = FrequencyBinCount
       /\ isInitialized' = IF mounted THEN TRUE ELSE isInitialized
       /\ error' = IF mounted THEN NoError ELSE error

\* initializeContext, lines 16-27: the call, up to the await of context.resume()
InitializeContext(st, fault) ==
  /\ mounted
  /\ AlreadyInitialized(view) \/ fault = "construct" => st = "running"
  /\ AlreadyInitialized(view) \/ st = "suspended" => fault \in {"none", "construct"}
  /\ AlreadyInitialized(view) => fault = "none"
  /\ IF AlreadyInitialized(view)
     THEN UNCHANGED <<ctxState, ctxWired, awaiting, audioContext, analyser,
                      isInitialized, error, gainNodeRef, dataArrayRef, bufferLengthRef,
                      gain>>
     ELSE IF fault = "construct"
     THEN /\ error' = InitError
          /\ UNCHANGED <<ctxState, ctxWired, awaiting, audioContext, analyser,
                         isInitialized, gainNodeRef, dataArrayRef, bufferLengthRef,
                         gain>>
     ELSE /\ FreeCtx # {}
          /\ ctxState' = [ctxState EXCEPT ![NewCtx] = st]
          /\ IF st = "suspended"
             THEN /\ awaiting' = awaiting \cup {NewCtx}
                  /\ UNCHANGED <<ctxWired, audioContext, analyser, isInitialized,
                                 error, gainNodeRef, dataArrayRef, bufferLengthRef,
                                 gain>>
             ELSE /\ InitBody(NewCtx, fault)
                  /\ UNCHANGED awaiting
  /\ UNCHANGED <<ctxCloses, srcs, filters, source, audioElementRef, view, effCleanup,
                 mounted>>
  /\ UNCHANGED <<listening, resuming, resumeErrorLogged>>
  /\ UNCHANGED <<vizVars, fnVars, utilGain, utilRamp, appVars>>

\* initializeContext, lines 26-54: context.resume() settles and the call goes on
ResumeSettles(c, ok, fault) ==
  /\ c \in awaiting
  /\ awaiting' = awaiting \ {c}
  /\ ~ok => fault = "none"
  /\ IF ok
     THEN /\ ctxState' = [ctxState EXCEPT ![c] = "running"]
          /\ InitBody(c, fault)
     ELSE /\ error' = IF mounted THEN InitError ELSE error
          /\ UNCHANGED <<ctxState, ctxWired, audioContext, analyser, isInitialized,
                         gainNodeRef, dataArrayRef, bufferLengthRef, gain>>
  /\ UNCHANGED <<ctxCloses, srcs, filters, source, audioElementRef, view, effCleanup,
                 mounted>>
  /\ UNCHANGED <<listening, resuming, resumeErrorLogged>>
  /\ UNCHANGED <<vizVars, fnVars, utilGain, utilRamp, appVars>>

\* connectAudioElement, lines 59-81: how far the call gets with the closure v
ConnectOutcome(v, e, fault) ==
  IF v.audioContext = Null \/ v.analyser = Null \/ e = Null THEN "return null"
  ELSE IF v.source # Null /\ fault = "disconnect" THEN "disconnect throws"
  ELSE IF fault = "create" \/ e \in Tapped THEN "create throws"
  ELSE IF fault = "connect" THEN "connect throws"
  ELSE "connected"

ConnectFailed(v, e, fault) ==
  ConnectOutcome(v, e, fault) \in {"disconnect throws", "create throws", "connect throws"}

\* connectAudioElement, lines 59-61 and 77-80: the error state after the call;
\* only the catch block sets it
ConnectErrorAfter(v, e, fault) ==
  IF ConnectFailed(v, e, fault) THEN ConnectError ELSE error

\* connectAudioElement, lines 64-67: the previous source is disconnected first
DisconnectPrevious(v) ==
  IF v.source # Null THEN Disconnected(srcs, v.source) ELSE srcs

\* connectAudioElement, lines 58-82, called with the closure of the last render:
\* what it does to the hook and the audio graph
ConnectBody(e, fault) ==
  /\ mounted
  /\ fault # "none" => ConnectOutcome(view, e, fault) # ConnectOutcome(view, e, "none")
  /\ LET out == ConnectOutcome(view, e, fault)
         s1 == DisconnectPrevious(view)
         id == Len(srcs) + 1
         s2 == Append(s1, [elem |-> e, ctx |-> view.audioContext, out |-> {},
                           cleaned |-> FALSE])
         s3 == [s2 EXCEPT ![id].out = {AnalyserOf(view.analyser)}]
     IN /\ srcs' = CASE out = "return null" -> srcs
                     [] out = "disconnect throws" -> srcs
                     [] out = "create throws" -> s1
                     [] out = "connect throws" -> s2
                     [] out = "connected" -> s3
        /\ error' = ConnectErrorAfter(view, e, fault)
        /\ audioElementRef' = IF out = "connected" THEN e ELSE audioElementRef
        /\ source' = IF out = "connected" THEN id ELSE source
  /\ UNCHANGED <<ctxState, ctxWired, ctxCloses, awaiting, filters, audioContext, analyser,
                 isInitialized, gainNodeRef, dataArrayRef, bufferLengthRef,
                 view, effCleanup, mounted>>
  /\ UNCHANGED <<listening, resuming, resumeErrorLogged>>

\* a caller invokes connectAudioElement
ConnectAudioElement(e, fault) ==
  /\ ConnectBody(e, fault)
  /\ UNCHANGED <<vizVars, fnVars, volVars, appVars>>

\* a getter that only looks at the analyser of its closure
PollReturnsEmptyUnlessAnalyser(v) == v.analyser = Null

\* getFrequencyData / getTimeDomainData, lines 86 and 96: nothing to poll
PollReturnsEmpty(v) == v.analyser = Null \/ dataArrayRef = Null

\* the length of the array behind a buffer reference: lines 40-41 allocate it
\* with frequencyBinCount entries
BufferLength(b) == IF b = Null THEN 0 ELSE FrequencyBinCount

\* getFrequencyData / getTimeDomainData, lines 85-102, called with the closure v:
\* the array returned (Null: an empty array allocated by the call), its length,
\* and the analyser whose data the call copied into it (Null: none)
Poll(v, method) ==
  IF PollReturnsEmpty(v)
  THEN [method |-> "none", reads |-> Null, buffer |-> Null, length |-> 0]
  ELSE [method |-> method, reads |-> v.analyser, buffer |-> dataArrayRef,
        length |-> BufferLength(dataArrayRef)]

GetFrequencyData(v) == Poll(v, "getByteFrequencyData")
GetTimeDomainData(v) == Poll(v, "getByteTimeDomainData")

\* applyLowPassFilter / applyHighPassFilter, lines 118-130 and 134-146
FilterOutcome(v, fault) ==
  IF v.audioContext = Null \/ v.source = Null THEN "return"
  ELSE IF fault = "create" THEN "create throws"
  ELSE IF fault = "disconnect" THEN "disconnect throws"
  ELSE IF fault = "connect" \/ srcs[v.source].ctx # v.audioContext THEN "connect throws"
  ELSE IF fault = "connectAnalyser" \/ v.analyser = Null THEN "connectAnalyser throws"
  ELSE "applied"

FilterFailed(v, fault) ==
  FilterOutcome(v, fault) \notin {"return", "applied"}

\* applyLowPassFilter / applyHighPassFilter, lines 117-147: the two differ in the
\* type and the cutoff frequency they give the filter node, which no other
\* operation reads; the graph they build is the same
ApplyFilter(fault) ==
  /\ mounted
  /\ fault # "none" => FilterOutcome(view, fault) # FilterOutcome(view, "none")
  /\ LET out == FilterOutcome(view, fault)
         s == view.source
         k == Len(filters) + 1
         fl1 == Append(filters, [ctx |-> view.audioContext, out |-> {}])
         fl4 == [fl1 EXCEPT ![k].out = {AnalyserOf(view.analyser)}]
         s2 == Disconnected(srcs, s)
         s3 == [s2 EXCEPT ![s].out = {FilterNode(k)}]
     IN /\ out # "return" => Len(filters) < MaxFilters
        /\ filters' = CASE out \in {"return", "create throws"} -> filters
                        [] out = "applied" -> fl4
                        [] OTHER -> fl1
        /\ srcs' = CASE out \in {"return", "create throws", "disconnect throws"} -> srcs
                     [] out = "connect throws" -> s2
                     [] OTHER -> s3
  /\ UNCHANGED <<ctxState, ctxWired, ctxCloses, awaiting, audioContext, analyser, source,
                 isInitialized, error, audioElementRef, gainNodeRef, dataArrayRef,
                 bufferLengthRef, view, effCleanup, mounted>>
  /\ UNCHANGED <<listening, resuming, resumeErrorLogged>>
  /\ UNCHANGED <<vizVars, fnVars, volVars, appVars>>

ApplyLowPassFilter(fault) == ApplyFilter(fault)
ApplyHighPassFilter(fault) == ApplyFilter(fault)

\* removeFilters, lines 150-157
RemoveOutcome(v, fault) ==
  IF v.source = Null \/ v.analyser = Null THEN "return"
  ELSE IF fault = "disconnect" THEN "disconnect throws"
  ELSE IF fault = "connect" \/ srcs[v.source].ctx # v.analyser THEN "connect throws"
  ELSE "removed"

RemoveFailed(v, fault) ==
  RemoveOutcome(v, fault) \in {"disconnect throws", "connect throws"}

\* removeFilters, lines 149-158
RemoveFilters(fault) ==
  /\ mounted
  /\ fault # "none" => RemoveOutcome(view, fault) # RemoveOutcome(view, "none")
  /\ LET out == RemoveOutcome(view, fault)
         s == view.source
         s1 == Disconnected(srcs, s)
         s2 == [s1 EXCEPT ![s].out = {AnalyserOf(view.analyser)}]
     IN srcs' = CASE out \in {"return", "disconnect throws"} -> srcs
                  [] out = "connect throws" -> s1
                  [] out = "removed" -> s2
  /\ UNCHANGED <<ctxState, ctxWired, ctxCloses, awaiting, filters, audioContext, analyser,
                 source, isInitialized, error, audioElementRef, gainNodeRef, dataArrayRef,
                 bufferLengthRef, view, effCleanup, mounted>>
  /\ UNCHANGED <<listening, resuming, resumeErrorLogged>>
  /\ UNCHANGED <<vizVars, fnVars, volVars, appVars>>

\* a cleanup that closes whatever context its closure holds
ShouldCloseAnyway(clCtx) == clCtx # Null

\* cleanup, line 217: close the context unless it is closed already
ShouldClose(clCtx) == clCtx # Null /\ ctxState[clCtx] # "closed"

\* cleanup, lines 213-222: how far the try block gets
CleanupOutcome(clSource, clCtx, fault) ==
  IF clSource # Null /\ fault = "disconnect" THEN "disconnect throws"
  ELSE IF ShouldClose(clCtx) /\ fault = "close" THEN "close throws"
  ELSE IF ShouldClose(clCtx) THEN "closed"
  ELSE "nothing to close"

CleanupFailed(clSource, clCtx, fault) ==
  CleanupOutcome(clSource, clCtx, fault) \in {"disconnect throws", "close throws"}

\* cleanup, lines 212-232, as the closure that captured clSource and clCtx runs
\* it; `cleaned` marks a source on which a cleanup has called disconnect()
Cleanup(clSource, clCtx, fault) ==
  LET out == CleanupOutcome(clSource, clCtx, fault)
  IN /\ fault # "none" => out # CleanupOutcome(clSource, clCtx, "none")
     /\ srcs' = IF clSource = Null THEN srcs
                ELSE IF out = "disconnect throws"
                THEN [srcs EXCEPT ![clSource].cleaned = TRUE]
                ELSE [srcs EXCEPT ![clSource].out = {}, ![clSource].cleaned = TRUE]
     /\ ctxState' = IF out = "closed" THEN [ctxState EXCEPT ![clCtx] = "closed"]
                    ELSE ctxState
     /\ ctxCloses' = IF out = "closed" THEN [ctxCloses EXCEPT ![clCtx] = @ + 1]
                     ELSE ctxCloses
     /\ audioContext' = Null
     /\ analyser' = Null
     /\ source' = Null
     /\ isInitialized' = FALSE
     /\ audioElementRef' = Null
     /\ gainNodeRef' = Null
     /\ dataArrayRef' = Null
     /\ bufferLengthRef' = 0

\* a caller invokes the cleanup of the last render
CleanupCall(fault) ==
  /\ mounted
  /\ Cleanup(view.source, view.audioContext, fault)
  /\ UNCHANGED <<ctxWired, awaiting, filters, error, view, effCleanup, mounted>>
  /\ UNCHANGED <<listening, resuming, resumeErrorLogged>>
  /\ UNCHANGED <<vizVars, fnVars, volVars, appVars>>

\* the effect of lines 235-239: its dependency is cleanup, whose dependencies
\* (line 232) are source and audioContext
CleanupDeps(v) == <<v.source, v.audioContext>>

\* does this render run the effect of lines 235-239 again
EffectReruns == CleanupDeps(CurrentView) # CleanupDeps(effCleanup)

\* the effect of lines 242-257 depends on audioContext (line 257): when the
\* rendered value is a new one its destructor removes the listener (line 255)
\* and its body adds handleStateChange to the new context, if there is one
\* (lines 243 and 252)
StateChangeEffectReruns == audioContext # view.audioContext

\* a render after a state change: the callbacks close over the new state; if
\* cleanup is a new function the effect is run again, destructor first
Render(fault) ==
  /\ mounted
  /\ view # CurrentView
  /\ view' = CurrentView
  /\ IF EffectReruns
     THEN /\ Cleanup(effCleanup.source, effCleanup.audioContext, fault)
          /\ effCleanup' = CurrentView
     ELSE /\ fault = "none"
          /\ UNCHANGED <<srcs, ctxState, ctxCloses, audioContext, analyser, source,
                         isInitialized, audioElementRef, gainNodeRef, dataArrayRef,
                         bufferLengthRef, effCleanup>>
  /\ listening' = IF StateChangeEffectReruns THEN audioContext ELSE listening
  /\ UNCHANGED <<ctxWired, awaiting, resuming, resumeErrorLogged, filters, error, mounted>>
  /\ UNCHANGED <<vizVars, fnVars, volVars, appVars>>

\* the component unmounts: the destructor of lines 236-238 runs
Unmount(fault) ==
  /\ mounted
  /\ mounted' = FALSE
  /\ Cleanup(effCleanup.source, effCleanup.audioContext, fault)
  /\ listening' = Null
  /\ UNCHANGED <<ctxWired, awaiting, resuming, resumeErrorLogged, filters, error, view,
                 effCleanup>>
  /\ UNCHANGED <<vizVars, fnVars, volVars, appVars>>

\* handleStateChange, lines 245-250, as the statechange event of context c runs
\* the listeners: does it call resume()
HandlerResumes(c, state) == listening = c /\ state = "suspended"

\* the platform suspends a running context and fires its statechange event:
\* handleStateChange, if it listens, calls audioContext.resume()
Suspends(c) ==
  /\ ctxState[c] = "running"
  /\ ctxState' = [ctxState EXCEPT ![c] = "suspended"]
  /\ resuming' = IF HandlerResumes(c, "suspended") THEN resuming \cup {c} ELSE resuming
  /\ UNCHANGED <<ctxWired, ctxCloses, awaiting, listening, resumeErrorLogged, srcs, filters,
                 audioContext, analyser, source, isInitialized, error,
                 audioElementRef, gainNodeRef, dataArrayRef, bufferLengthRef,
                 view, effCleanup, mounted>>
  /\ UNCHANGED <<vizVars, fnVars, volVars, appVars>>

\* the promise of the resume() of line 248 settles: fulfilled, the context runs
\* (its statechange finds it running, and the handler does nothing); rejected,
\* .catch(console.error) logs the reason and nothing else happens
HandlerResumeSettles(c, ok) ==
  /\ c \in resuming
  /\ ok => ctxState[c] = "suspended"
  /\ resuming' = resuming \ {c}
  /\ ctxState' = IF ok THEN [ctxState EXCEPT ![c] = "running"] ELSE ctxState
  /\ resumeErrorLogged' = (resumeErrorLogged \/ ~ok)
  /\ UNCHANGED <<ctxWired, ctxCloses, awaiting, listening, srcs, filters,
                 audioContext, analyser, source, isInitialized, error,
                 audioElementRef, gainNodeRef, dataArrayRef, bufferLengthRef,
                 view, effCleanup, mounted>>
  /\ UNCHANGED <<vizVars, fnVars, volVars, appVars>>

\* --------------------------------------------------------- the Visualizer

VisualizerTypes == {"bars", "wave", "circular", "particles"}
\* the values the switch of animate is run with: the four of the buttons, and
\* one that none of its cases names
TypeValues == VisualizerTypes \cup {"unrecognized"}
RafIds == 1..MaxRaf
\* the calls of initializeAudio that can throw; the connect calls of lines
\* 449-450 join nodes that lines 437-445 made in one context, which the platform
\* never refuses
VizFaults == {"none", "context", "source", "analyser"}

\* a switch whose cases fall through
DrawDispatchFallsThrough(type) ==
  CASE type = "bars" -> <<"drawBars", "drawWave", "drawCircular", "drawParticles", "drawBars">>
    [] type = "wave" -> <<"drawWave", "drawCircular", "drawParticles", "drawBars">>
    [] type = "circular" -> <<"drawCircular", "drawParticles", "drawBars">>
    [] type = "particles" -> <<"drawParticles", "drawBars">>
    [] OTHER -> <<"drawBars">>

\* animate, lines 495-510: the draw functions the switch calls for a type
DrawDispatch(type) ==
  CASE type = "bars" -> <<"drawBars">>
    [] type = "wave" -> <<"drawWave">>
    [] type = "circular" -> <<"drawCircular">>
    [] type = "particles" -> <<"drawParticles">>
    [] OTHER -> <<"drawBars">>

\* an animate that does not look at isPlaying
SkipsNoFrame(cl) == FALSE

\* animate, line 479: a paused frame only schedules the next one
SkipsFrame(cl) == ~cl.isPlaying

\* requestAnimationFrame hands out an id that is not in use
FreshRaf(l) ==
  LET free == RafIds \ ({p.id : p \in l.rafPending} \cup {l.animationRef})
  IN IF free = {} THEN Null ELSE CHOOSE i \in free : \A j \in free : i <= j

\* animate, lines 480 and 512: animationRef.current = requestAnimationFrame(animate)
RequestFrame(cl, l) ==
  [l EXCEPT !.animationRef = FreshRaf(l),
            !.rafPending = @ \cup {[id |-> FreshRaf(l), isPlaying |-> cl.isPlaying,
                                    visualizerType |-> cl.visualizerType]}]

\* a paused animate that returns without asking for another frame
PausedFrameStops(cl, l) == l

\* animate, lines 479-482: a paused run only asks for the next frame
PausedFrame(cl, l) == RequestFrame(cl, l)

\* an animate that never resumes the context
ResumeNeverNeeded(state) == FALSE

\* animate, line 485: audioContextRef.current?.state === 'suspended'
ResumeNeeded(state) == state = "suspended"

\* animate, lines 485-487: resume() is called and its promise is dropped, with
\* no await, then or catch; animate goes on at once
ResumeIfSuspended(l, state) ==
  IF ResumeNeeded(state) THEN [l EXCEPT !.resumes = @ + 1] ELSE l

\* animate, line 489: getByteFrequencyData writes the samples of a new capture
\* over the ones the buffer held
PullSnapshot(l) ==
  [l EXCEPT !.pulls = @ + 1, !.captured = l.pulls + 1]

\* animate, lines 495-510: the draw functions of the switch run, each reading
\* dataArrayRef.current as it is then
DrawSnapshot(l, type) ==
  [l EXCEPT !.renders = @ + Len(DrawDispatch(type)),
            !.lastDrawn = DrawDispatch(type),
            !.drawnCaptures = @ \o [i \in 1..Len(DrawDispatch(type)) |-> l.captured]]

\* an animate that draws the buffer before it pulls into it
DrawThenPull(l, type) == PullSnapshot(DrawSnapshot(l, type))

\* animate, lines 489-510: the pull, then the draw, in one synchronous run
PullThenDraw(l, type) == DrawSnapshot(PullSnapshot(l), type)

\* animate, lines 478-513, run with the closure cl on the loop state l; buffer
\* is dataArrayRef.current and state is audioContextRef.current?.state at that
\* moment.  With no buffer getByteFrequencyData throws a TypeError and the run
\* ends there.
Animate(cl, l, buffer, state) ==
  LET counted == [l EXCEPT !.frames = @ + 1, !.lastDrawn = <<>>]
      resumed == ResumeIfSuspended(counted, state)
  IN IF SkipsFrame(cl) THEN PausedFrame(cl, counted)
     ELSE IF buffer = Null THEN resumed
     ELSE RequestFrame(cl, PullThenDraw(resumed, cl.visualizerType))

\* a destructor that leaves the request in the queue
CancelNothing(l) == l

\* lines 465-467 and 518-520: cancelAnimationFrame(animationRef.current)
CancelFrame(l) ==
  IF l.animationRef # Null
  THEN [l EXCEPT !.rafPending = {p \in @ : p.id # l.animationRef}]
  ELSE l

\* the loop state as one record
Loop == [animationRef |-> animationRef, rafPending |-> rafPending, frames |-> frames,
         ticks |-> ticks, lastFrameBy |-> lastFrameBy,
         pulls |-> pulls, renders |-> renders, lastDrawn |-> lastDrawn,
         captured |-> captured, drawnCaptures |-> drawnCaptures,
         resumes |-> vizResumes]

SetLoop(l) ==
  /\ animationRef' = l.animationRef
  /\ rafPending' = l.rafPending
  /\ frames' = l.frames
  /\ ticks' = l.ticks
  /\ lastFrameBy' = l.lastFrameBy
  /\ pulls' = l.pulls
  /\ renders' = l.renders
  /\ lastDrawn' = l.lastDrawn
  /\ captured' = l.captured
  /\ drawnCaptures' = l.drawnCaptures
  /\ vizResumes' = l.resumes

\* an animation effect that does not depend on the visualization type
AnimDepsWithoutType == <<isPlaying, vizIsInitialized>>

\* the dependencies of the animation effect, line 522
AnimDeps == <<isPlaying, visualizerType, vizIsInitialized>>

\* an animation effect without the guard of line 473
AnimEffectRunsAnyway == FALSE

\* the animation effect, line 473: nothing to animate yet (the canvas is
\* rendered with the component, so canvasRef.current is set)
AnimEffectReturns == ~vizIsInitialized \/ analyserRef = Null

\* A commit after the props or the state changed (the primed values are the new
\* ones): the destructors of the effects whose dependencies changed run first,
\* then the animation effect (lines 472-522) runs again.  initRan says that the
\* initialization effect is among them, with its destructor of lines 464-468.
CommitAnimation(initRan) ==
  LET l1 == IF initRan /\ initCleanup THEN CancelFrame(Loop) ELSE Loop
      rerun == AnimDeps' # animDepsRun
      l2 == IF rerun /\ animCleanup THEN CancelFrame(l1) ELSE l1
      cl == [isPlaying |-> isPlaying', visualizerType |-> visualizerType']
  IN IF ~rerun
     THEN /\ SetLoop(l1)
          /\ UNCHANGED <<animCleanup, animDepsRun>>
     ELSE /\ animDepsRun' = AnimDeps'
          /\ IF AnimEffectReturns'
             THEN /\ animCleanup' = FALSE
                  /\ SetLoop(l2)
             ELSE /\ animCleanup' = TRUE
                  /\ frames < MaxFrames
                  /\ FreshRaf(l2) # Null
                  /\ SetLoop([Animate(cl, l2, vizDataArrayRef', vizCtxState')
                             EXCEPT !.lastFrameBy = "effect"])

\* initializeAudio, lines 434-460: the refs after the call, and whether it
\* reached setIsInitialized(true)
InitializeAudio(e, fault) ==
  LET needCtx == audioContextRef = Null
      needSrc == sourceRef = Null
      needAn == analyserRef = Null
      f1 == needCtx /\ fault = "context"
      f2 == ~f1 /\ needSrc /\ fault = "source"
      f3 == ~f1 /\ ~f2 /\ needAn /\ fault = "analyser"
  IN [audioContextRef |-> IF f1 THEN Null ELSE 1,
      sourceRef |-> IF f1 \/ f2 THEN sourceRef ELSE IF needSrc THEN e ELSE sourceRef,
      analyserRef |-> IF f1 \/ f2 \/ f3 THEN analyserRef ELSE 1,
      dataArrayRef |-> IF f1 \/ f2 \/ f3 THEN vizDataArrayRef
                       ELSE IF needAn THEN 1 ELSE vizDataArrayRef,
      newContext |-> needCtx /\ ~f1,
      done |-> ~(f1 \/ f2 \/ f3)]

\* the audioElement prop changes: the initialization effect (lines 431-469) runs
\* again, and if it initializes, the render it causes runs both effects; st is
\* the state a context made by line 437 starts in
SetAudioElement(e, fault, st) ==
  /\ vizMounted
  /\ e # audioElement
  /\ audioElement' = e
  /\ UNCHANGED <<isPlaying, visualizerType>>
  /\ IF e = Null \/ vizIsInitialized
     THEN /\ fault = "none"
          /\ st = "running"
          /\ initCleanup' = FALSE
          /\ UNCHANGED <<vizIsInitialized, audioContextRef, sourceRef, analyserRef,
                         vizDataArrayRef, vizCtxState>>
          /\ CommitAnimation(TRUE)
     ELSE LET r == InitializeAudio(e, fault)
          IN /\ ~r.newContext => st = "running"
             /\ vizCtxState' = IF r.newContext THEN st ELSE vizCtxState
             /\ audioContextRef' = r.audioContextRef
             /\ sourceRef' = r.sourceRef
             /\ analyserRef' = r.analyserRef
             /\ vizDataArrayRef' = r.dataArrayRef
             /\ vizIsInitialized' = r.done
             /\ initCleanup' = ~r.done
             /\ CommitAnimation(TRUE)
  /\ UNCHANGED vizMounted
  /\ UNCHANGED <<tapVars, fnVars, volVars, appVars>>

\* the Visualizer is rendered with the isPlaying prop b: what a new value does
PlayingProp(b) ==
  /\ isPlaying' = b
  /\ UNCHANGED <<audioElement, visualizerType, vizIsInitialized, vizMounted,
                 audioContextRef, sourceRef, analyserRef, vizDataArrayRef, initCleanup,
                 vizCtxState>>
  /\ CommitAnimation(FALSE)

\* the isPlaying prop changes
SetPlaying(b) ==
  /\ vizMounted
  /\ b # isPlaying
  /\ PlayingProp(b)
  /\ UNCHANGED <<tapVars, fnVars, volVars, appVars>>

\* line 684: a button calls setVisualizerType
SetVisualizerType(type) ==
  /\ vizMounted
  /\ type # visualizerType
  /\ visualizerType' = type
  /\ UNCHANGED <<audioElement, isPlaying, vizIsInitialized, vizMounted,
                 audioContextRef, sourceRef, analyserRef, vizDataArrayRef, initCleanup,
                 vizCtxState>>
  /\ CommitAnimation(FALSE)
  /\ UNCHANGED <<tapVars, fnVars, volVars, appVars>>

\* the browser fires a pending animation frame request: its animate runs
Tick(p) ==
  /\ p \in rafPending
  /\ frames < MaxFrames
  /\ LET l == [Loop EXCEPT !.rafPending = @ \ {p}]
         cl == [isPlaying |-> p.isPlaying, visualizerType |-> p.visualizerType]
     IN SetLoop([Animate(cl, l, vizDataArrayRef, vizCtxState)
                   EXCEPT !.ticks = @ + 1, !.lastFrameBy = "tick"])
  /\ UNCHANGED <<audioElement, isPlaying, visualizerType, vizIsInitialized, vizMounted,
                 audioContextRef, sourceRef, analyserRef, vizDataArrayRef,
                 vizCtxState, initCleanup, animCleanup, animDepsRun>>
  /\ UNCHANGED <<tapVars, fnVars, volVars, appVars>>

\* the platform suspends the Visualizer's running context (an interruption, or
\* the page losing the right to play)
VizSuspends ==
  /\ vizCtxState = "running"
  /\ vizCtxState' = "suspended"
  /\ UNCHANGED <<audioElement, isPlaying, visualizerType, vizIsInitialized, vizMounted,
                 audioContextRef, sourceRef, analyserRef, vizDataArrayRef, animationRef,
                 vizResumes, initCleanup, animCleanup, animDepsRun, rafPending,
                 frames, ticks, lastFrameBy, pulls, renders, lastDrawn,
                 captured, drawnCaptures>>
  /\ UNCHANGED <<tapVars, fnVars, volVars, appVars>>

\* the promise of a resume() made at line 486 settles: fulfilled, the context
\* runs; rejected, nothing handles the rejection.  No code of the component is
\* attached to the promise.
VizResumeSettles(ok) ==
  /\ vizResumes > 0
  /\ vizResumes' = vizResumes - 1
  /\ vizCtxState' = IF ok THEN "running" ELSE vizCtxState
  /\ UNCHANGED <<audioElement, isPlaying, visualizerType, vizIsInitialized, vizMounted,
                 audioContextRef, sourceRef, analyserRef, vizDataArrayRef, animationRef,
                 initCleanup, animCleanup, animDepsRun, rafPending,
                 frames, ticks, lastFrameBy, pulls, renders, lastDrawn,
                 captured, drawnCaptures>>
  /\ UNCHANGED <<tapVars, fnVars, volVars, appVars>>

\* the Visualizer unmounts: the destructors of both effects run
VizUnmount ==
  /\ vizMounted
  /\ vizMounted' = FALSE
  /\ LET l1 == IF initCleanup THEN CancelFrame(Loop) ELSE Loop
         l2 == IF animCleanup THEN CancelFrame(l1) ELSE l1
     IN SetLoop(l2)
  /\ initCleanup' = FALSE
  /\ animCleanup' = FALSE
  /\ UNCHANGED <<audioElement, isPlaying, visualizerType, vizIsInitialized,
                 audioContextRef, sourceRef, analyserRef, vizDataArrayRef, animDepsRun,
                 vizCtxState>>
  /\ UNCHANGED <<tapVars, fnVars, volVars, appVars>>

\* the Visualizer after its first render with no audio element
VizInit ==
  /\ audioElement = Null
  /\ isPlaying = FALSE
  /\ visualizerType = "bars"
  /\ vizIsInitialized = FALSE
  /\ vizMounted = TRUE
  /\ audioContextRef = Null
  /\ sourceRef = Null
  /\ analyserRef = Null
  /\ vizDataArrayRef = Null
  /\ animationRef = Null
  /\ vizCtxState = "none"
  /\ vizResumes = 0
  /\ initCleanup = FALSE
  /\ animCleanup = FALSE
  /\ animDepsRun = AnimDeps
  /\ rafPending = {}
  /\ frames = 0
  /\ ticks = 0
  /\ lastFrameBy = "none"
  /\ pulls = 0
  /\ renders = 0
  /\ lastDrawn = <<>>
  /\ captured = 0
  /\ drawnCaptures = <<>>

VizNext ==
  \/ \E e \in Elem \cup {Null}, fault \in VizFaults, st \in {"suspended", "running"} :
       SetAudioElement(e, fault, st)
  \/ \E b \in BOOLEAN : SetPlaying(b)
  \/ \E type \in TypeValues : SetVisualizerType(type)
  \/ \E p \in rafPending : Tick(p)
  \/ VizSuspends
  \/ \E ok \in BOOLEAN : VizResumeSettles(ok)
  \/ VizUnmount

\* ------------------------------------------------------- getAudioAnalysis

\* A JavaScript number as a fraction n/d: the sums are integers and every
\* division is by an integer, so the fraction is exact (the rounding of the
\* double arithmetic is not modelled).  d = 0 is the result of a division by
\* zero: NaN for 0/0, Infinity for x/0.  Fractions are kept in lowest terms.
RECURSIVE Gcd(_, _)
Gcd(a, b) == IF b = 0 THEN a ELSE Gcd(b, a % b)

Frac(n, d) ==
  IF d = 0 \/ n = 0 THEN [n |-> n, d |-> IF d = 0 THEN 0 ELSE 1]
  ELSE [n |-> n \div Gcd(n, d), d |-> d \div Gcd(n, d)]
Div(x, k) == Frac(x.n, x.d * k)
Plus(x, y) == Frac(x.n * y.d + y.n * x.d, x.d * y.d)
Defined(x) == x.d # 0
Equal(x, y) == Defined(x) /\ Defined(y) /\ x.n * y.d = y.n * x.d
InUnitInterval(x) == Defined(x) /\ 0 <= x.n /\ x.n <= x.d

\* the snapshots: every sequence of up to MaxLen samples
Samples == {0, MaxSample \div 2, MaxSample}
Snapshots == UNION {[1..n -> Samples] : n \in 0..MaxLen}

\* lines 174-175: Math.floor(length * 0.1) and Math.floor(length * 0.5)
BassEnd(data) == Len(data) \div 10
MidEnd(data) == Len(data) \div 2

\* a mid loop that starts one index late
MidIndicesSkippingOne(data) ==
  {i \in 0..(Len(data) - 1) : BassEnd(data) < i /\ i < MidEnd(data)}

\* the indices (from 0, as in the code) that the three loops visit
BassIndices(data) == {i \in 0..(Len(data) - 1) : i < BassEnd(data)}
MidIndices(data) == {i \in 0..(Len(data) - 1) : BassEnd(data) <= i /\ i < MidEnd(data)}
TrebleIndices(data) == {i \in 0..(Len(data) - 1) : MidEnd(data) <= i}

\* the sum and the maximum of the samples at a set of indices
RECURSIVE SumAt(_, _)
SumAt(data, idx) ==
  IF idx = {} THEN 0
  ELSE LET i == CHOOSE j \in idx : TRUE IN data[i + 1] + SumAt(data, idx \ {i})

RECURSIVE MaxAt(_, _)
MaxAt(data, idx) ==
  IF idx = {} THEN 0
  ELSE LET i == CHOOSE j \in idx : TRUE
           rest == MaxAt(data, idx \ {i})
       IN IF data[i + 1] > rest THEN data[i + 1] ELSE rest

\* lines 164-172: the result for an empty snapshot
ZeroAnalysis ==
  [bass |-> Frac(0, 1), mid |-> Frac(0, 1), treble |-> Frac(0, 1),
   volume |-> Frac(0, 1), peak |-> Frac(0, 1), divisions |-> 0]

\* a call that does not look at the length
IsNeverEmptySnapshot(data) == FALSE

\* line 164: the guard of the empty snapshot
IsEmptySnapshot(data) == Len(data) = 0

\* a volume that is the sum of the band means
VolumeAsSum(bass, mid, treble) == Plus(Plus(bass, mid), treble)

\* line 200: the volume is the mean of the three band means
Volume(bass, mid, treble) == Div(Plus(Plus(bass, mid), treble), 3)

\* getAudioAnalysis, lines 161-209, for the snapshot data; divisions counts the
\* divisions the call performs
GetAudioAnalysis(data) ==
  IF IsEmptySnapshot(data) THEN ZeroAnalysis
  ELSE LET bass == Div(Frac(SumAt(data, BassIndices(data)), 1), BassEnd(data))
           mid == Div(Frac(SumAt(data, MidIndices(data)), 1),
                      MidEnd(data) - BassEnd(data))
           treble == Div(Frac(SumAt(data, TrebleIndices(data)), 1),
                         Len(data) - MidEnd(data))
           peak == MaxAt(data, BassIndices(data) \cup MidIndices(data)
                                 \cup TrebleIndices(data))
           volume == Volume(bass, mid, treble)
       IN [bass |-> Div(bass, MaxSample), mid |-> Div(mid, MaxSample),
           treble |-> Div(treble, MaxSample), volume |-> Div(volume, MaxSample),
           peak |-> Div(Frac(peak, 1), MaxSample), divisions |-> 9]

NoAnalysis == [divisions |-> -1]

\* a caller asks for the analysis of the snapshot
Analyse ==
  /\ analysis = NoAnalysis
  /\ analysis' = GetAudioAnalysis(frequencyData)
  /\ UNCHANGED <<frequencyData, polledArray, circles, tapVars, vizVars, volVars, appVars>>

\* the spectra the analyser has to hand out while audio plays: two levels, the
\* lower bins at one and the upper bins at the other, on an analyser scaled down
\* to MaxLen bins
LiveSignals ==
  {[i \in 1..MaxLen |-> IF i <= k THEN a ELSE b] : a \in Samples, b \in Samples, k \in 0..MaxLen}

\* silence: every bin at 0
Silence == [i \in 1..MaxLen |-> 0]

\* does the analyser of context c get a signal: its context runs and a source
\* is connected to it, directly or through a filter
Audible(c) ==
  /\ ctxState[c] = "running"
  /\ \E s \in 1..Len(srcs) : ReachesAnalyser(s, c)

\* getAudioAnalysis, lines 161-209, called on the hook with the closures of the
\* last render: line 162 calls getFrequencyData, which makes the analyser write
\* its spectrum of the moment into the shared array (lines 90-91); without an
\* analyser or an array it hands out a new empty array (lines 86-88)
GetAudioAnalysisCall(signal) ==
  /\ mounted
  /\ IF PollReturnsEmpty(view)
     THEN /\ signal = Silence
          /\ analysis' = GetAudioAnalysis(<<>>)
          /\ UNCHANGED <<frequencyData, polledArray>>
     ELSE /\ ~Audible(view.analyser) => signal = Silence
          /\ frequencyData' = signal
          /\ polledArray' = dataArrayRef
          /\ analysis' = GetAudioAnalysis(signal)
  /\ UNCHANGED <<circles, tapVars, vizVars, volVars, appVars>>

\* ----------------------------------------------------------- drawParticles

\* the samples drawParticles is tried on: silence, the two values next to the
\* threshold of line 632, and the largest one
ParticleSamples == {0, 25, 26, MaxSample}
ParticleSnapshots == UNION {[1..n -> ParticleSamples] : n \in 0..MaxBins}

\* a drawParticles that paints every sample that is not silent
ParticleShownUnlessSilent(sample) == sample > 0

\* drawParticles, lines 631-632: intensity = dataArray[i] / 255 exceeds 0.1
ParticleShown(sample) ==
  LET intensity == Frac(sample, MaxSample)
  IN 10 * intensity.n > intensity.d

\* drawParticles, lines 633-640: the circle of index i: its radius is
\* intensity * 6 and its opacity the intensity (its place is drawn at random
\* and left out)
Circle(data, i) ==
  [index |-> i,
   size |-> Frac(6 * data[i + 1], MaxSample),
   alpha |-> Frac(data[i + 1], MaxSample)]

\* drawParticles, lines 630-641: the loop from index i on, in steps of 4
RECURSIVE ParticlesFrom(_, _)
ParticlesFrom(data, i) ==
  IF i >= Len(data) THEN <<>>
  ELSE (IF ParticleShown(data[i + 1]) THEN <<Circle(data, i)>> ELSE <<>>)
         \o ParticlesFrom(data, i + 4)

\* drawParticles, lines 619-645: the circles of one frame, in painting order
DrawParticles(data) == ParticlesFrom(data, 0)

NotDrawn == <<[index |-> -1]>>

\* the particles strategy draws one frame of the snapshot
PaintParticles ==
  /\ circles = NotDrawn
  /\ circles' = DrawParticles(frequencyData)
  /\ UNCHANGED <<frequencyData, analysis, polledArray, tapVars, vizVars, volVars, appVars>>

FnIdle ==
  /\ circles = NotDrawn
  /\ frequencyData = <<>>
  /\ polledArray = Null
  /\ analysis = NoAnalysis

\* ------------------------------------------------------------- the volume

\* the levels a caller asks for: from -1 to 2
Levels == (-VolumeSteps)..(2 * VolumeSteps)

Min(a, b) == IF a < b THEN a ELSE b
Max(a, b) == IF a > b THEN a ELSE b

\* the hook's setVolume, line 107: Math.max(0, Math.min(1, volume))
Clamp(volume) == Max(0, Min(FullGain, volume))

\* the hook's setVolume, lines 105-109
SetVolume(volume) ==
  /\ mounted
  /\ gain' = IF gainNodeRef # Null THEN Clamp(volume) ELSE gain
  /\ UNCHANGED <<utilGain, utilRamp, tapVars, vizVars, fnVars, appVars>>

\* the hook's getVolume, lines 112-114
GetVolume == IF gainNodeRef # Null THEN gain ELSE FullGain

NoRamp == [active |-> FALSE, target |-> 0]

\* setVolume of the utilities (src/unnamed/part_000, lines 239-246): the
\* scheduled values are cancelled, the current value is pinned, and a linear
\* ramp to `volume` is scheduled
UtilSetVolume(volume) ==
  /\ utilRamp' = [active |-> TRUE, target |-> volume]
  /\ UNCHANGED <<gain, utilGain, tapVars, vizVars, fnVars, appVars>>

\* the ramp reaches its end: the gain is the target of the ramp (the gain
\* AudioParam takes any float, the platform does not clamp it)
RampCompletes ==
  /\ utilRamp.active
  /\ utilGain' = utilRamp.target
  /\ utilRamp' = NoRamp
  /\ UNCHANGED <<gain, tapVars, vizVars, fnVars, appVars>>

\* lines 34 (gainNode.gain.value = 1) and part_000 232-236 (initialGain = 1)
VolumeIdle ==
  /\ gain = FullGain
  /\ utilGain = FullGain
  /\ utilRamp = NoRamp

\* -------------------------------------------------------------------- App

\* lines 26-43: the sample tracks, by their ids
SampleTracks == <<1, 2>>

\* audioRef.current: the one <audio> element that App renders (lines 302-308)
AudioRef == 1

RepeatModes == {"none", "one", "all"}

NoIndex == [by |-> "none", index |-> 0]

\* playlist.findIndex(track => track.id === currentTrack?.id): -1 when no track
\* has the id, which is the case for a null or undefined current track
FindIndex(pl, t) ==
  LET hits == {i \in 1..Len(pl) : pl[i] = t}
  IN IF hits = {} THEN -1 ELSE (CHOOSE i \in hits : \A j \in hits : i <= j) - 1

\* playlist[i]: undefined (written Null, like null) outside 0..length-1
TrackAt(pl, i) == IF i \in 0..(Len(pl) - 1) THEN pl[i + 1] ELSE Null

\* the effect of lines 81-86, run with the hook values App was rendered with
ConnectEffect(fault) ==
  IF view.audioContext # Null /\ view.analyser # Null
  THEN ConnectBody(AudioRef, fault)
  ELSE fault = "none" /\ UNCHANGED tapVars

\* setCurrentTrack(t) and the render it causes: a new current track runs the
\* effect of lines 81-86 again (currentTrack is among its dependencies)
SetCurrentTrack(t, fault) ==
  /\ currentTrack' = t
  /\ IF t # currentTrack THEN ConnectEffect(fault)
     ELSE fault = "none" /\ UNCHANGED tapVars

\* setIsPlaying(b) and the render it causes: the Visualizer gets the new prop
\* (line 225)
SetIsPlaying(b) ==
  IF b # isPlaying THEN PlayingProp(b) ELSE UNCHANGED vizVars

\* the mount effect, lines 45-50, and the first run of the effect of lines 81-86
AppMountEffect ==
  /\ ~appMounted
  /\ appMounted' = TRUE
  /\ IF Len(playlist) = 0
     THEN playlist' = SampleTracks /\ SetCurrentTrack(SampleTracks[1], "none")
     ELSE UNCHANGED <<playlist, currentTrack, tapVars>>
  /\ UNCHANGED <<appVolume, isMuted, isShuffled, repeatMode, elementVolume, lastIndex>>
  /\ UNCHANGED <<vizVars, fnVars, volVars>>

\* handleFileUpload, lines 88-112: files[i] says whether file i is an audio file.
\* Every audio file is appended (line 103); currentTrack is the one of the render
\* the handler belongs to, so with no current track every new track is set in
\* turn and the last one stays (lines 105-107).  The ids of line 95 are new.
AudioFiles(files) == {i \in 1..Len(files) : files[i]}

NewTracks(files) == [k \in 1..Cardinality(AudioFiles(files)) |-> Len(playlist) + k]

HandleFileUpload(files, fault) ==
  /\ appMounted
  /\ Len(playlist) + Len(NewTracks(files)) <= MaxTracks
  /\ playlist' = playlist \o NewTracks(files)
  /\ IF currentTrack = Null /\ NewTracks(files) # <<>>
     THEN SetCurrentTrack(NewTracks(files)[Len(NewTracks(files))], fault)
     ELSE fault = "none" /\ UNCHANGED <<currentTrack, tapVars>>
  /\ UNCHANGED <<appVolume, isMuted, isShuffled, repeatMode, appMounted, elementVolume,
                 lastIndex>>
  /\ UNCHANGED <<vizVars, fnVars, volVars>>

\* togglePlay, lines 114-124
TogglePlay ==
  /\ appMounted
  /\ IF currentTrack = Null THEN UNCHANGED vizVars ELSE SetIsPlaying(~isPlaying)
  /\ UNCHANGED <<tapVars, fnVars, volVars, appVars>>

\* a handleNext that does not wrap around
NextIndexUnwrapped(currentIndex, r) ==
  IF repeatMode = "one" THEN currentIndex
  ELSE IF isShuffled THEN r
  ELSE currentIndex + 1

\* handleNext, lines 129-138; r is Math.floor(Math.random() * playlist.length)
NextIndex(currentIndex, r) ==
  IF repeatMode = "one" THEN currentIndex
  ELSE IF isShuffled THEN r
  ELSE (currentIndex + 1) % Len(playlist)

\* handlePrevious, lines 147-154
PrevIndex(currentIndex, r) ==
  IF isShuffled THEN r
  ELSE IF currentIndex = 0 THEN Len(playlist) - 1 ELSE currentIndex - 1

\* the values Math.floor(Math.random() * playlist.length) can take
RandomIndex == IF Len(playlist) = 0 THEN {0} ELSE 0..(Len(playlist) - 1)

\* handleNext, lines 126-142; also the handler of the element's ended event
HandleNext(r, fault) ==
  /\ appMounted
  /\ r \in RandomIndex
  /\ (repeatMode = "one" \/ ~isShuffled) => r = 0
  /\ IF Len(playlist) = 0
     THEN fault = "none" /\ UNCHANGED <<currentTrack, lastIndex, tapVars, vizVars>>
     ELSE LET nextIndex == NextIndex(FindIndex(playlist, currentTrack), r)
          IN /\ lastIndex' = [by |-> "next", index |-> nextIndex]
             /\ SetCurrentTrack(TrackAt(playlist, nextIndex), fault)
             /\ SetIsPlaying(TRUE)
  /\ UNCHANGED <<playlist, appVolume, isMuted, isShuffled, repeatMode, appMounted,
                 elementVolume>>
  /\ UNCHANGED <<fnVars, volVars>>

\* handlePrevious, lines 144-158
HandlePrevious(r, fault) ==
  /\ appMounted
  /\ r \in RandomIndex
  /\ ~isShuffled => r = 0
  /\ IF Len(playlist) = 0
     THEN fault = "none" /\ UNCHANGED <<currentTrack, lastIndex, tapVars, vizVars>>
     ELSE LET prevIndex == PrevIndex(FindIndex(playlist, currentTrack), r)
          IN /\ lastIndex' = [by |-> "previous", index |-> prevIndex]
             /\ SetCurrentTrack(TrackAt(playlist, prevIndex), fault)
             /\ SetIsPlaying(TRUE)
  /\ UNCHANGED <<playlist, appVolume, isMuted, isShuffled, repeatMode, appMounted,
                 elementVolume>>
  /\ UNCHANGED <<fnVars, volVars>>

\* onTrackSelect, line 243: setCurrentTrack with a track of the playlist
TrackSelect(t, fault) ==
  /\ appMounted
  /\ \E i \in 1..Len(playlist) : playlist[i] = t
  /\ SetCurrentTrack(t, fault)
  /\ UNCHANGED <<playlist, appVolume, isMuted, isShuffled, repeatMode, appMounted,
                 elementVolume, lastIndex>>
  /\ UNCHANGED <<vizVars, fnVars, volVars>>

\* setIsShuffled and setRepeatMode, lines 17-18
SetShuffled(b) ==
  /\ appMounted
  /\ b # isShuffled
  /\ isShuffled' = b
  /\ UNCHANGED <<playlist, currentTrack, appVolume, isMuted, repeatMode, appMounted,
                 elementVolume, lastIndex>>
  /\ UNCHANGED <<tapVars, vizVars, fnVars, volVars>>

SetRepeatMode(m) ==
  /\ appMounted
  /\ m # repeatMode
  /\ repeatMode' = m
  /\ UNCHANGED <<playlist, currentTrack, appVolume, isMuted, isShuffled, appMounted,
                 elementVolume, lastIndex>>
  /\ UNCHANGED <<tapVars, vizVars, fnVars, volVars>>

\* the setter of audio.volume throws an IndexSizeError outside [0,1]
VolumeAccepted(newVolume) == newVolume \in 0..FullGain

\* handleVolumeChange, lines 168-175
HandleVolumeChange(newVolume) ==
  /\ appMounted
  /\ IF VolumeAccepted(newVolume)
     THEN /\ elementVolume' = newVolume
          /\ appVolume' = newVolume
          /\ isMuted' = (newVolume = 0)
     ELSE UNCHANGED <<elementVolume, appVolume, isMuted>>
  /\ UNCHANGED <<playlist, currentTrack, isShuffled, repeatMode, appMounted, lastIndex>>
  /\ UNCHANGED <<tapVars, vizVars, fnVars, volVars>>

\* a toggleMute that unmutes to full volume
UnmutedToFull == FullGain

\* toggleMute, line 181: audio.volume = volume
UnmutedVolume == appVolume

\* toggleMute, lines 177-188
ToggleMute ==
  /\ appMounted
  /\ IF isMuted
     THEN elementVolume' = UnmutedVolume /\ isMuted' = FALSE
     ELSE elementVolume' = 0 /\ isMuted' = TRUE
  /\ UNCHANGED <<playlist, currentTrack, appVolume, isShuffled, repeatMode, appMounted,
                 lastIndex>>
  /\ UNCHANGED <<tapVars, vizVars, fnVars, volVars>>

\* App after its first render, lines 10-23
AppInit ==
  /\ playlist = <<>>
  /\ currentTrack = Null
  /\ appVolume = FullGain
  /\ isMuted = FALSE
  /\ isShuffled = FALSE
  /\ repeatMode = "none"
  /\ appMounted = FALSE
  /\ elementVolume = FullGain
  /\ lastIndex = NoIndex

\* the lists of files an upload can hand over
FileLists == UNION {[1..n -> BOOLEAN] : n \in 1..MaxFiles}

TapInit ==
  /\ ctxState = [c \in Ctx |-> "none"]
  /\ ctxWired = {}
  /\ ctxCloses = [c \in Ctx |-> 0]
  /\ awaiting = {}
  /\ listening = Null
  /\ resuming = {}
  /\ resumeErrorLogged = FALSE
  /\ srcs = <<>>
  /\ filters = <<>>
  /\ audioContext = Null
  /\ analyser = Null
  /\ source = Null
  /\ isInitialized = FALSE
  /\ error = NoError
  /\ audioElementRef = Null
  /\ gainNodeRef = Null
  /\ dataArrayRef = Null
  /\ bufferLengthRef = 0
  /\ view = [audioContext |-> Null, analyser |-> Null, source |-> Null]
  /\ effCleanup = [audioContext |-> Null, analyser |-> Null, source |-> Null]
  /\ mounted = TRUE

Init == TapInit /\ VizInit /\ FnIdle /\ VolumeIdle /\ AppInit

Next ==
  \/ \E st \in {"suspended", "running"}, fault \in InitFaults : InitializeContext(st, fault)
  \/ \E c \in Ctx, ok \in BOOLEAN, fault \in {"none", "node"} : ResumeSettles(c, ok, fault)
  \/ \E e \in Handles, fault \in ConnectFaults : ConnectAudioElement(e, fault)
  \/ \E fault \in FilterFaults : ApplyLowPassFilter(fault)
  \/ \E fault \in FilterFaults : ApplyHighPassFilter(fault)
  \/ \E fault \in RemoveFaults : RemoveFilters(fault)
  \/ \E fault \in CleanupFaults : CleanupCall(fault)
  \/ \E fault \in CleanupFaults : Render(fault)
  \/ \E fault \in CleanupFaults : Unmount(fault)

Spec == Init /\ [][Next]_vars

\* the Visualizer on its own
VizSpec == Init /\ [][VizNext]_vars

\* getAudioAnalysis on every snapshot
AnalysisInit ==
  /\ TapInit /\ VizInit /\ VolumeIdle /\ AppInit
  /\ frequencyData \in Snapshots
  /\ polledArray = Null
  /\ circles = NotDrawn
  /\ analysis = NoAnalysis

AnalysisNext == Analyse

AnalysisSpec == AnalysisInit /\ [][AnalysisNext]_vars

\* the volume setters, on a tap that initializeContext has initialized
VolumeNext ==
  \/ \E st \in {"running"}, fault \in {"none"} : InitializeContext(st, fault)
  \/ \E volume \in Levels : SetVolume(volume)
  \/ \E volume \in Levels : UtilSetVolume(volume)
  \/ RampCompletes

VolumeSpec == Init /\ [][VolumeNext]_vars

\* suspension and resume: the platform suspends the contexts of an initialized
\* tap and of a Visualizer whose loop runs, and the resume promises settle
ResumeNext ==
  \/ \E st \in {"running"}, fault \in {"none"} : InitializeContext(st, fault)
  \/ \E fault \in {"none"} : Render(fault)
  \/ \E fault \in {"none"} : Unmount(fault)
  \/ \E c \in Ctx : Suspends(c)
  \/ \E c \in Ctx, ok \in BOOLEAN : HandlerResumeSettles(c, ok)
  \/ \E e \in Elem \cup {Null}, fault \in {"none"}, st \in {"suspended", "running"} :
       SetAudioElement(e, fault, st)
  \/ \E b \in BOOLEAN : SetPlaying(b)
  \/ \E p \in rafPending : Tick(p)
  \/ VizSuspends
  \/ \E ok \in BOOLEAN : VizResumeSettles(ok)

ResumeSpec == Init /\ [][ResumeNext]_vars

\* drawParticles on every snapshot
ParticlesInit ==
  /\ TapInit /\ VizInit /\ VolumeIdle /\ AppInit
  /\ frequencyData \in ParticleSnapshots
  /\ analysis = NoAnalysis
  /\ polledArray = Null
  /\ circles = NotDrawn

ParticlesNext == PaintParticles

ParticlesSpec == ParticlesInit /\ [][ParticlesNext]_vars

\* getAudioAnalysis on a tap that is initialized and polled while audio plays;
\* frequencyData is then what the shared array polledArray holds
MetricsNext ==
  \/ \E st \in {"suspended", "running"}, fault \in {"none"} : InitializeContext(st, fault)
  \/ \E c \in Ctx, ok \in {TRUE}, fault \in {"none"} : ResumeSettles(c, ok, fault)
  \/ \E e \in Handles, fault \in {"none"} : ConnectAudioElement(e, fault)
  \/ \E fault \in {"none"} : CleanupCall(fault)
  \/ \E fault \in {"none"} : Render(fault)
  \/ \E signal \in LiveSignals : GetAudioAnalysisCall(signal)

MetricsSpec == Init /\ [][MetricsNext]_vars

\* App: the operations that App.jsx calls or hands to its children.  App takes
\* analyser, audioContext, connectAudioElement and getFrequencyData from the hook
\* (line 24) and calls none of its other functions.
AppNext ==
  \/ AppMountEffect
  \/ \E files \in FileLists, fault \in ConnectFaults : HandleFileUpload(files, fault)
  \/ TogglePlay
  \/ \E r \in 0..(MaxTracks - 1), fault \in ConnectFaults : HandleNext(r, fault)
  \/ \E r \in 0..(MaxTracks - 1), fault \in ConnectFaults : HandlePrevious(r, fault)
  \/ \E t \in 1..MaxTracks, fault \in ConnectFaults : TrackSelect(t, fault)
  \/ \E b \in BOOLEAN : SetShuffled(b)
  \/ \E m \in RepeatModes : SetRepeatMode(m)
  \/ \E newVolume \in Levels : HandleVolumeChange(newVolume)
  \/ ToggleMute

AppSpec == Init /\ [][AppNext]_vars

\* every App operation that can be taken is taken in the end
AppLiveSpec == AppSpec /\ WF_vars(AppNext)


\* ------------------------------------------------- claims on the Visualizer

\* C2: while the Visualizer is initialized and isPlaying is true, every tick
\* pulls exactly one frequency snapshot and calls exactly one draw function,
\* whatever the visualization type, one that the switch does not name included.
C2_OnePullOneDispatch ==
  [][\A p \in rafPending :
       (Tick(p) /\ vizIsInitialized /\ isPlaying)
         => /\ pulls' = pulls + 1
            /\ renders' = renders + 1
            /\ Len(lastDrawn') = 1]_vars

\* a tick of the playing loop has drawn a type that the switch does not name
C2_Witness ==
  /\ vizIsInitialized /\ isPlaying
  /\ visualizerType = "unrecognized"
  /\ lastFrameBy = "tick"
  /\ lastDrawn = <<"drawBars">>

\* C3: while the Visualizer is initialized and isPlaying is false, a tick pulls
\* no snapshot and calls no draw function, however many ticks follow each other.
C3_PausedTicksDoNothing ==
  [][\A p \in rafPending :
       (Tick(p) /\ vizIsInitialized /\ ~isPlaying)
         => /\ pulls' = pulls
            /\ renders' = renders
            /\ lastDrawn' = <<>>]_vars

\* three ticks in a row of the paused loop, and nothing pulled or drawn
C3_Witness ==
  /\ vizIsInitialized /\ ~isPlaying
  /\ ticks = 3 /\ frames = 4
  /\ pulls = 0 /\ renders = 0
  /\ rafPending # {}

\* C4: the unmount of the Visualizer cancels the pending animation frame
\* request, and after it animate never runs: nothing is pulled or drawn.
C4_NoFrameAfterTeardown ==
  /\ [](~vizMounted => rafPending = {})
  /\ [][~vizMounted => UNCHANGED <<frames, ticks, pulls, renders, lastDrawn>>]_vars

\* a playing loop that ticked, switched type and was then unmounted
C4_Witness ==
  /\ ~vizMounted
  /\ isPlaying /\ vizIsInitialized
  /\ ticks >= 1 /\ lastFrameBy = "effect"
  /\ visualizerType = "wave"
  /\ animationRef # Null

\* the draw function of each visualization type
StrategyOf ==
  [type \in VisualizerTypes |->
     CASE type = "bars" -> "drawBars"
       [] type = "wave" -> "drawWave"
       [] type = "circular" -> "drawCircular"
       [] type = "particles" -> "drawParticles"]

\* C5: every frame that draws calls exactly one draw function, the one of the
\* visualization type selected at that moment; so the first frame after a
\* switch is drawn by the new strategy and none later by the old one.
C5_FrameDrawnBySelectedStrategy ==
  [][renders' # renders
       => /\ Len(lastDrawn') = 1
          /\ visualizerType' \in VisualizerTypes
               => lastDrawn'[1] = StrategyOf[visualizerType']]_vars

\* the type was switched to circular while the loop was playing, and the tick
\* after the switch drew with drawCircular
C5_Witness ==
  /\ isPlaying /\ visualizerType = "circular"
  /\ frames = 3 /\ pulls = 3 /\ ticks = 1
  /\ lastFrameBy = "tick"
  /\ lastDrawn = <<"drawCircular">>

\* ------------------------------------------------------- claims on the hook

\* the tap is initialized: context open, analyser, gain node and buffer present
TapInitialized ==
  /\ isInitialized
  /\ audioContext # Null /\ ctxState[audioContext] # "closed"
  /\ analyser # Null
  /\ gainNodeRef # Null
  /\ dataArrayRef # Null

\* the tap holds nothing: what cleanup leaves behind
TapCleared ==
  /\ audioContext = Null /\ analyser = Null /\ source = Null /\ ~isInitialized
  /\ audioElementRef = Null /\ gainNodeRef = Null /\ dataArrayRef = Null
  /\ bufferLengthRef = 0

\* C1: once initialized, the tap stays initialized through every step that is
\* neither an explicit cleanup call nor the unmount; in particular a re-render
\* caused by the state updates of initialization does not tear it down.
C1_StaysInitialized ==
  [][(TapInitialized /\ ~(\E f \in CleanupFaults : CleanupCall(f) \/ Unmount(f)))
       => TapInitialized']_vars

\* the sources whose signal enters the analyser of context c
SourcesInto(c) == {s \in 1..Len(srcs) : ReachesAnalyser(s, c)}

\* C6: after any sequence of connectAudioElement calls at most one media source
\* is connected to the analyser.
C6_SingleSource == \A c \in Ctx : Cardinality(SourcesInto(c)) <= 1

\* C7: a connectAudioElement call that fails records the failure in the error
\* state and leaves every audio route that reached the output before the call
\* reaching it after the call.
C7_FailedConnectKeepsRoute ==
  [][\A e \in Elem, fault \in ConnectFaults :
       (ConnectAudioElement(e, fault) /\ ConnectFailed(view, e, fault))
         => /\ error' = ConnectError
            /\ \A s \in 1..Len(srcs) : ReachesOutput(s) => ReachesOutput(s)']_vars

\* the contexts that are live: created and not closed
LiveContexts == {c \in Ctx : ctxState[c] \in {"suspended", "running"}}

\* C8: after any number of initializeContext calls at most one live context
\* exists, and the stored analyser, gain node and buffer belong to the stored
\* context.
C8_OneLiveContext ==
  /\ Cardinality(LiveContexts) <= 1
  /\ audioContext # Null =>
       /\ analyser \in {Null, audioContext}
       /\ gainNodeRef \in {Null, audioContext}
       /\ dataArrayRef \in {Null, audioContext}

\* a step that runs cleanup with the closure that captured clSource
CleanupRunsOn(clSource) ==
  \/ clSource = view.source /\ \E f \in CleanupFaults : CleanupCall(f)
  \/ /\ clSource = effCleanup.source
     /\ \E f \in CleanupFaults : (EffectReruns /\ Render(f)) \/ Unmount(f)

\* C9 as stated: every run of cleanup, from any state and also when a platform
\* call inside it fails, leaves the tap with no context, analyser, source, gain
\* node or buffer and isInitialized false; no context is closed more than once;
\* and no source has disconnect() called on it by more than one run of cleanup.
C9_CleanupAtMostOnce ==
  /\ [](\A c \in Ctx : ctxCloses[c] <= 1)
  /\ [][\A s \in 0..Len(srcs) :
          CleanupRunsOn(s) => /\ TapCleared'
                              /\ s # Null => ~srcs[s].cleaned]_vars

\* C9 as amended: every run of cleanup, from any state (also one where
\* initialization never completed, and also when a platform call inside it
\* fails), leaves the tap with no context, analyser, source, gain node or buffer
\* and isInitialized false, so a second cleanup leaves that state unchanged; and
\* no context is closed more than once.  A repeated cleanup does call
\* disconnect() again on the source its closure holds.
C9_CleanupIdempotent ==
  /\ [](\A c \in Ctx : ctxCloses[c] <= 1)
  /\ [][\A s \in 0..Len(srcs) : CleanupRunsOn(s) => TapCleared']_vars

\* cleanup has closed the context of an initialized tap, and the closure of the
\* last render still holds that context: the next cleanup call is a repeated one
C9_Witness ==
  /\ TapCleared
  /\ view.audioContext # Null
  /\ ctxCloses[view.audioContext] = 1
  /\ mounted

\* C10: every failure of an audio-graph operation is recorded in the error
\* state (the caller never sees it: each operation returns normally).
C10_FailureRecorded ==
  [][/\ \A st \in {"suspended", "running"}, fault \in InitFaults :
          (InitializeContext(st, fault) /\ ~AlreadyInitialized(view) /\ fault # "none"
             /\ (fault = "node" => st = "running"))
            => error' = InitError
     /\ \A c \in Ctx, fault \in {"none", "node"} :
          (mounted /\ ResumeSettles(c, FALSE, fault)) => error' = InitError
     /\ \A e \in Elem, fault \in ConnectFaults :
          (ConnectAudioElement(e, fault) /\ ConnectFailed(view, e, fault))
            => error' = ConnectError
     /\ \A fault \in FilterFaults :
          ((ApplyLowPassFilter(fault) \/ ApplyHighPassFilter(fault))
             /\ FilterFailed(view, fault)) => error' # NoError
     /\ \A fault \in RemoveFaults :
          (RemoveFilters(fault) /\ RemoveFailed(view, fault)) => error' # NoError
     /\ \A fault \in CleanupFaults :
          (CleanupCall(fault) /\ CleanupFailed(view.source, view.audioContext, fault))
            => error' # NoError]_vars

\* C11: a connectAudioElement call made while the closure holds no context or
\* no analyser, or with a null element, returns without throwing and without
\* touching the connection state, and reports an error state.
C11_EarlyReturnReportsError ==
  mounted =>
    \A e \in Handles :
      ConnectOutcome(view, e, "none") = "return null"
        => /\ ~ConnectFailed(view, e, "none")
           /\ ConnectErrorAfter(view, e, "none") # NoError

\* what the two getters return to a caller that holds the last render's closures
Polls == {GetFrequencyData(view), GetTimeDomainData(view)}

C13_SnapshotIsTheBuffer ==
  (mounted /\ isInitialized) =>
    \A r \in Polls : /\ r.length = FftSize \div 2
                      /\ r.buffer # Null
                      /\ r.buffer = dataArrayRef

\* ------------------------------------------------ claims on getAudioAnalysis

Analysed == analysis # NoAnalysis
Fields == {"bass", "mid", "treble", "volume", "peak"}

RefFloor(num, den) == CHOOSE k \in 0..num : den * k <= num /\ num < den * (k + 1)
RefBand(lo, hi) == lo..(hi - 1)
RefMean(data, band) == Frac(SumAt(data, band), Cardinality(band) * MaxSample)
RefPeak(data) ==
  CHOOSE s \in {data[i] : i \in 1..Len(data)} : \A i \in 1..Len(data) : data[i] <= s

\* C15: for a snapshot whose three bands are non-empty, the result is the
\* reference computation: with b = floor(L/10) and m = floor(L/2) the loops
\* visit exactly [0,b), [b,m) and [m,L), every index in exactly one of them;
\* each band value is the mean of its samples over 255, volume is the mean of
\* the three band values, peak is the largest sample over 255; and for L = 10
\* the bands are {0}, {1..4} and {5..9}.
C15_MatchesReference ==
  LET data == frequencyData
      L == Len(data)
      b == RefFloor(L, 10)
      m == RefFloor(L, 2)
      bass == RefBand(0, b)
      mid == RefBand(b, m)
      treble == RefBand(m, L)
  IN (Analysed /\ bass # {} /\ mid # {} /\ treble # {}) =>
       /\ BassIndices(data) = bass
       /\ MidIndices(data) = mid
       /\ TrebleIndices(data) = treble
       /\ \A i \in 0..(L - 1) :
            Cardinality({B \in {"b", "m", "t"} :
                           i \in (CASE B = "b" -> BassIndices(data)
                                     [] B = "m" -> MidIndices(data)
                                     [] B = "t" -> TrebleIndices(data))}) = 1
       /\ Equal(analysis.bass, RefMean(data, bass))
       /\ Equal(analysis.mid, RefMean(data, mid))
       /\ Equal(analysis.treble, RefMean(data, treble))
       /\ Equal(analysis.volume,
                Div(Plus(Plus(RefMean(data, bass), RefMean(data, mid)),
                         RefMean(data, treble)), 3))
       /\ Equal(analysis.peak, Frac(RefPeak(data), MaxSample))
       /\ L = 10 => bass = {0} /\ mid = 1..4 /\ treble = 5..9

\* a snapshot of ten bins with a different level in each band was analysed
C15_Witness ==
  /\ Analysed
  /\ frequencyData = <<MaxSample, 0, 0, 0, 0, MaxSample \div 2, MaxSample \div 2,
                       MaxSample \div 2, MaxSample \div 2, MaxSample \div 2>>
  /\ Equal(analysis.bass, Frac(1, 1))
  /\ Equal(analysis.mid, Frac(0, 1))
  /\ Equal(analysis.peak, Frac(1, 1))

AllSamples(data, s) == \A i \in 1..Len(data) : data[i] = s
AllFields(x) == \A f \in Fields : Equal(analysis[f], x)

C17_EmptySnapshotIsZero ==
  (Analysed /\ Len(frequencyData) = 0) =>
     /\ AllFields(Frac(0, 1))
     /\ analysis.divisions = 0

\* the empty snapshot was analysed
C17_Witness ==
  /\ Analysed
  /\ frequencyData = <<>>
  /\ analysis = ZeroAnalysis

\* ------------------------------------------------------ claims on the volume

\* C18: whatever level is asked for, the gain set by the hook's setVolume and
\* the target of the ramp scheduled by the utilities' setVolume are the level
\* clamped to [0,1], so every gain stays within [0,1].
C18_GainWithinUnitInterval ==
  /\ gain \in 0..FullGain /\ GetVolume \in 0..FullGain
  /\ utilGain \in 0..FullGain
  /\ utilRamp.active => utilRamp.target \in 0..FullGain

\* ------------------------------------- claims on suspension and resume

\* C19: a context that initializeContext created suspended, and whose resume has
\* not completed, does not hold the initialization back: the call has finished
\* (it is not parked on the resume), the context's analyser and gain node are in
\* place and the suspension has left no error.
C19_InitFinishesWhileSuspended ==
  \A c \in Ctx :
    ctxState[c] = "suspended" =>
      /\ c \notin awaiting
      /\ c \in ctxWired
      /\ error # InitError

\* C20: a tick of the playing loop that finds the Visualizer's context
\* suspended calls resume() and, without waiting for it, pulls its snapshot,
\* draws and schedules the next tick; a resume promise that settles, fulfilled
\* or rejected, touches nothing of the loop.  In the hook, the statechange event
\* of a suspension runs handleStateChange, which calls resume(); when that
\* promise settles, rejected included, the hook's state and error stay as they
\* were.
C20_ResumeDoesNotBlock ==
  /\ [][\A p \in rafPending :
          (Tick(p) /\ p.isPlaying /\ vizCtxState = "suspended")
            => /\ vizResumes' = vizResumes + 1
               /\ pulls' = pulls + 1
               /\ renders' = renders + 1
               /\ \E q \in rafPending' : q.id = animationRef' /\ q \notin rafPending]_vars
  /\ [][vizResumes' < vizResumes
          => UNCHANGED <<animationRef, rafPending, frames, ticks, lastFrameBy,
                         pulls, renders, lastDrawn, vizIsInitialized>>]_vars
  /\ [][\A c \in Ctx :
          (ctxState[c] = "running" /\ ctxState'[c] = "suspended" /\ listening = c)
            => c \in resuming']_vars
  /\ [][\A c \in Ctx :
          (c \in resuming /\ c \notin resuming')
            => UNCHANGED <<error, audioContext, analyser, source, isInitialized,
                           listening, mounted>>]_vars

\* two ticks in a row of the playing loop found the context suspended, each
\* pulled and drew with the resume of the one before still pending; and the
\* hook has had a resume of handleStateChange rejected, its context still
\* suspended and no error set
C20_Witness ==
  /\ isPlaying /\ vizCtxState = "suspended"
  /\ lastFrameBy = "tick" /\ ticks >= 2
  /\ vizResumes >= 2 /\ pulls >= 2 /\ renders >= 2
  /\ \E p \in rafPending : p.id = animationRef
  /\ listening # Null /\ ctxState[listening] = "suspended"
  /\ resumeErrorLogged /\ listening \notin resuming
  /\ error = NoError

\* ------------------------------------------ claims on captures and renders

\* C21: captures and draw calls alternate: the k-th draw call reads the k-th
\* capture, so there are as many draw calls as captures, none reads a capture
\* that a later pull has overwritten, and the buffer still holds the capture of
\* the last draw when animate returns.
C21_CapturesAndRendersAlternate ==
  /\ renders = pulls
  /\ drawnCaptures = [k \in 1..pulls |-> k]
  /\ captured = pulls

\* three captures, each drawn before the next one, by ticks of a playing loop
C21_Witness ==
  /\ pulls = 3 /\ renders = 3
  /\ drawnCaptures = <<1, 2, 3>>
  /\ lastFrameBy = "tick" /\ ticks >= 2

TapServesApp ==
  /\ isInitialized
  /\ source # Null /\ audioElementRef = AudioRef
  /\ vizIsInitialized
  /\ GetFrequencyData(view).length > 0

\* C23: in App, once a track is current and playback has been started, the tap
\* is initialized in the end, with the audio element connected, the Visualizer
\* out of its idle state and snapshots of non-zero length.
C23_TapEventuallyServesApp ==
  (appMounted /\ currentTrack # Null /\ isPlaying) ~> TapServesApp

\* ------------------------------------ claims on getAudioAnalysis on the tap

\* C24: getAudioAnalysis has no side effect on the shared array: a call on an
\* initialized tap whose array holds a spectrum leaves the array's contents as
\* they were, and returns the metrics that the call before it returned.
C24_AnalysisLeavesBufferAlone ==
  [][\A signal \in LiveSignals :
       (GetAudioAnalysisCall(signal) /\ ~PollReturnsEmpty(view)
          /\ polledArray = dataArrayRef /\ Analysed)
         => /\ frequencyData' = frequencyData
            /\ analysis' = analysis]_vars

\* ------------------------------------------------ claims on drawParticles

\* the indices that are multiples of 4 and whose sample is at least 26
LoudFourthIndices(data) ==
  {i \in 0..(Len(data) - 1) : i % 4 = 0 /\ data[i + 1] >= 26}

\* C25: one frame of the particles strategy paints exactly one circle for each
\* index that is a multiple of 4 and whose sample is at least 26 (sample / 255
\* above 0.1), and no circle for any other index.
C25_OneCirclePerLoudFourthSample ==
  circles # NotDrawn =>
    /\ Len(circles) = Cardinality(LoudFourthIndices(frequencyData))
    /\ {circles[k].index : k \in 1..Len(circles)} = LoudFourthIndices(frequencyData)

\* a frame with a circle for index 0, none for index 4 whose sample is just
\* below the threshold, and none for the loud samples in between
C25_Witness ==
  /\ Len(frequencyData) = 6
  /\ frequencyData[1] = 26 /\ frequencyData[2] = MaxSample /\ frequencyData[5] = 25
  /\ Len(circles) = 1 /\ circles[1].index = 0

\* ------------------------------------- claims on the animation frame queue

\* C26: in the Visualizer at most one animation frame request is pending at
\* any time, the one animationRef names, and none is pending while the
\* Visualizer is not initialized.
C26_AtMostOnePendingFrame ==
  /\ Cardinality(rafPending) <= 1
  /\ \A p \in rafPending : p.id = animationRef
  /\ ~vizIsInitialized => rafPending = {}

\* the loop was started paused, switched to playing and to another type, each
\* switch starting animate anew, and ticked: one request is pending
C26_Witness ==
  /\ vizIsInitialized /\ isPlaying /\ visualizerType = "wave"
  /\ frames = 4 /\ ticks >= 1
  /\ Cardinality(rafPending) = 1

\* ------------------------------------------------ claims on the filter graph

\* the paths by which the signal of source s reaches the analyser of context c:
\* the direct connection (lines 71, 154), and every filter the source feeds
\* (lines 126, 142) that feeds the analyser (lines 127, 143)
PathsToAnalyser(s, c) ==
  {<<"direct", 0>> : x \in {AnalyserOf(c)} \cap srcs[s].out}
    \cup {<<"filter", k>> : k \in {j \in 1..Len(filters) :
                                     /\ FilterNode(j) \in srcs[s].out
                                     /\ AnalyserOf(c) \in filters[j].out}}

\* C27: a filter operation on a source that has an outgoing connection, with no
\* platform failure injected, leaves that source with exactly one outgoing
\* connection and exactly one path to the analyser of the call: through the
\* filter created last after applyLowPassFilter / applyHighPassFilter, direct
\* after removeFilters
C27_OneRouteThroughLatestFilter ==
  [][/\ (ApplyFilter("none") /\ FilterOutcome(view, "none") # "return"
            /\ srcs[view.source].out # {})
        => /\ srcs'[view.source].out = {FilterNode(Len(filters'))}
           /\ PathsToAnalyser(view.source, view.analyser)'
                 = {<<"filter", Len(filters')>>}
     /\ (RemoveFilters("none") /\ RemoveOutcome(view, "none") # "return"
            /\ srcs[view.source].out # {})
        => /\ srcs'[view.source].out = {AnalyserOf(view.analyser)}
           /\ PathsToAnalyser(view.source, view.analyser)' = {<<"direct", 0>>}]_vars

\* ------------------------------------------------------------ claims on App

\* C28: the media element is silent exactly while isMuted is true and plays at
\* the stored volume otherwise; muting keeps the level the element had as the
\* stored volume, and unmuting gives the element that level back
C28_MuteAndVolumeAgree ==
  /\ [](appMounted => /\ isMuted => elementVolume = 0
                      /\ ~isMuted => elementVolume = appVolume)
  /\ [][(ToggleMute /\ ~isMuted)
          => /\ isMuted' /\ elementVolume' = 0
             /\ appVolume' = elementVolume]_vars
  /\ [][(ToggleMute /\ isMuted)
          => /\ ~isMuted' /\ elementVolume' = appVolume]_vars

\* muted by toggleMute after the volume was set to a middle level
C28_Witness ==
  /\ isMuted
  /\ elementVolume = 0
  /\ appVolume = 2
  /\ appVolume # FullGain

\* C29: whenever the playlist is non-empty the current track is one of its
\* elements, and the index handleNext or handlePrevious computed last lies in
\* 0..length-1
C29_CurrentTrackInPlaylist ==
  /\ Len(playlist) > 0 => \E i \in 1..Len(playlist) : playlist[i] = currentTrack
  /\ lastIndex.by # "none" => lastIndex.index \in 0..(Len(playlist) - 1)

\* handleNext has wrapped around to the first track of a playlist that holds an
\* uploaded track besides the two samples
C29_Witness ==
  /\ Len(playlist) = Len(SampleTracks) + 1
  /\ lastIndex = [by |-> "next", index |-> 0]
  /\ currentTrack = playlist[1]
  /\ isPlaying
  /\ ~isShuffled
  /\ repeatMode = "all"

====
